---- MODULE Spec2Model ----
(***************************************************************************)
(* MigrationJob (src/src/modules/models/job_models/migrationJob.ts): the   *)
(* task-ordering of setup(), the query order, and the job pipeline that    *)
(* runs on the computed orders.                                            *)
(*                                                                         *)
(* Objects are named by their place in the declaration: the i-th declared  *)
(* object is called ObjectNames[i], unless it is the RecordType object.    *)
(* The relationships between the places are arbitrary, so every            *)
(* declaration order of every relationship graph is covered up to the      *)
(* choice of names.  Indices into `tasks` are the code's 0-based indices;  *)
(* the task at code index k is tasks[k + 1].                               *)
(***************************************************************************)
EXTENDS Integers, Sequences, FiniteSets, TLC

VARIABLES
    objects,                      \* script.objects, in declaration order
    tasks,                        \* MigrationJob.tasks: sObject names, execution order
    queryTasks,                   \* MigrationJob.queryTasks: sObject names, query order
    isMasterDetailTask,           \* task name -> task.tempData.isMasterDetailTask
    lowerIndexForAnyObjects,      \* local of setup()
    lowerIndexForReadonlyObjects, \* local of setup()
    objIndex,                     \* position of the forEach of setup() in script.objects
    lastInsert,                   \* what the last iteration of the forEach did
    script,                       \* script options: sourceOrg.media, importCSVFilesAsIs, ...
    csvValuesMapping,             \* MigrationJob.csvValuesMapping
    csvIssues,                    \* MigrationJob.csvIssues
    cachedCSVContent,             \* MigrationJob.cachedCSVContent
    abortWasPrompted,             \* local of _validateAndRepairSourceCSVFiles()
    disk,                         \* the tasks' CSV files in script.basePath
    pc,                           \* the method the job is in, or is about to be called
    pass,                         \* the sweep / pass of the running method (1-based)
    index,                        \* the loop variable `index` of the running loop
    retrieved,                    \* local of retrieveRecords()
    updated,                      \* local of updateRecords()
    deleted,                      \* local of deleteOldRecords()
    inFlight,                     \* the awaited calls that have not completed yet
    calls,                        \* every call made on a collaborator and its completion
    returned,                     \* per pass of the running method, what its calls returned
    log                           \* the messages logged by the running method

setupVars == <<objects, tasks, queryTasks, isMasterDetailTask, lowerIndexForAnyObjects,
               lowerIndexForReadonlyObjects, objIndex, lastInsert>>

loopVars == <<pass, index, retrieved, updated, deleted, inFlight, calls, returned, log>>

csvVars == <<csvValuesMapping, csvIssues, cachedCSVContent, abortWasPrompted, disk>>

vars == <<setupVars, script, csvVars, pc, loopVars>>

----------------------------------------------------------------------------
(* Bounds of the model *)

\* most objects declared in a script whose relationships are drawn freely
MaxObjects == 3
\* most parent relationships (lookup or master-detail) declared in such a script
MaxRelations == 2
\* most objects declared in a script whose flags are drawn freely
MaxQueryObjects == 3
\* most objects declared in a script that is run through the pipeline
MaxJobObjects == 2
\* most parent relationships declared in such a script
MaxJobRelations == 1
\* most records a single task.updateRecords call reports
MaxUpdatedPerTask == 1

----------------------------------------------------------------------------
(* Script objects *)

RECORD_TYPE_SOBJECT_NAME == "RecordType"

ObjectNames == <<"O1", "O2", "O3", "O4", "O5", "O6">>

\* a parent relationship between two declared places
Relations(n) ==
    [kind : {"lookup", "masterDetail"}, child : 1..n, parent : 1..n]

RECURSIVE SubsetsUpTo(_, _)
SubsetsUpTo(S, k) ==
    IF k = 0 THEN {{}}
    ELSE LET smaller == SubsetsUpTo(S, k - 1)
         IN  smaller \cup {T \cup {x} : T \in smaller, x \in S}

\* the relationship graphs of a script of n objects: no object is its own parent
RelationSets(n, maxRel) ==
    SubsetsUpTo({r \in Relations(n) : r.child # r.parent}, maxRel)

\* the flags of an object: the target-only flags are read by setup() only when none
\* of allRecords, isSpecialObject, isObjectWithoutRelationships is set
QueryFlags ==
    {f \in [{"allRecords", "isSpecialObject", "isObjectWithoutRelationships",
             "isLimitedQuery", "hasComplexExternalId", "hasAutonumberExternalId"}
                -> BOOLEAN] :
        (f.hasComplexExternalId \/ f.hasAutonumberExternalId) =>
            ~(f.allRecords \/ f.isSpecialObject \/ f.isObjectWithoutRelationships)}

\* which place, if any, holds the RecordType object (0: none)
NameAt(i, rt) == IF i = rt THEN RECORD_TYPE_SOBJECT_NAME ELSE ObjectNames[i]

NoFlags ==
    [allRecords |-> FALSE, isSpecialObject |-> FALSE,
     isObjectWithoutRelationships |-> FALSE, isLimitedQuery |-> FALSE,
     hasComplexExternalId |-> FALSE, hasAutonumberExternalId |-> FALSE]

ScriptObject(i, rt, readonly, rels, flags) ==
    [name |-> NameAt(i, rt),
     isReadonlyObject |-> readonly,
     parentLookupObjects |->
        {NameAt(r.parent, rt) : r \in {q \in rels : q.kind = "lookup" /\ q.child = i}},
     parentMasterDetailObjects |->
        {NameAt(r.parent, rt) : r \in {q \in rels : q.kind = "masterDetail" /\ q.child = i}},
     allRecords |-> flags.allRecords,
     isSpecialObject |-> flags.isSpecialObject,
     isObjectWithoutRelationships |-> flags.isObjectWithoutRelationships,
     isLimitedQuery |-> flags.isLimitedQuery,
     hasComplexExternalId |-> flags.hasComplexExternalId,
     hasAutonumberExternalId |-> flags.hasAutonumberExternalId,
     processAllSource |-> FALSE,
     processAllTarget |-> FALSE]

\* the script of n objects with the RecordType object at place rt (0: none),
\* read-only flags ro, relationships rels and flags fl
Script(n, rt, ro, rels, fl) ==
    [i \in 1..n |-> ScriptObject(i, rt, ro[i], rels, fl[i])]

----------------------------------------------------------------------------
(* Helpers over the task list *)

ObjectByName(name) ==
    objects[CHOOSE i \in 1..Len(objects) : objects[i].name = name]

\* a splice that overwrites the element at the index: splice(start, 1, item)
Splice_Overwriting(list, start, item) ==
    SubSeq(list, 1, start) \o <<item>> \o SubSeq(list, start + 2, Len(list))

\* Array.prototype.splice(start, 0, item) with a 0-based index
Splice(list, start, item) ==
    SubSeq(list, 1, start) \o <<item>> \o SubSeq(list, start + 1, Len(list))

\* 0-based index of a name in a list (-1 when absent), as Array.prototype.indexOf
IndexOf(list, name) ==
    IF \E k \in 1..Len(list) : list[k] = name
    THEN (CHOOSE k \in 1..Len(list) :
            list[k] = name /\ \A j \in 1..(k - 1) : list[j] # name) - 1
    ELSE -1

----------------------------------------------------------------------------
(* setup(): one iteration of the forEach over script.objects *)

ProcessAllSource(o) ==
    o.allRecords \/ o.isSpecialObject \/ o.isObjectWithoutRelationships

ProcessAllTarget(o) ==
    IF o.allRecords \/ o.isSpecialObject \/ o.isObjectWithoutRelationships
    THEN TRUE
    ELSE o.hasComplexExternalId \/ o.hasAutonumberExternalId

isObjectToAdd_ParentLookup(existedTask, objectToAdd) ==
    objectToAdd.name \in ObjectByName(existedTask).parentLookupObjects

\* a test that forgets the flag left by earlier scans
isExistedTask_ParentMasterDetail_FlagIgnored(existedTask, objectToAdd, flags) ==
    existedTask \in objectToAdd.parentMasterDetailObjects

isExistedTask_ParentMasterDetail(existedTask, objectToAdd, flags) ==
    existedTask \in objectToAdd.parentMasterDetailObjects \/ flags[existedTask]

\* the scan run down to index 0, into the RecordType and read-only region
ScanFloor_ToStart(lowerAny) == 0

\* the lowest index the backward scan of the general case examines
ScanFloor(lowerAny) == lowerAny

\* a scan that breaks out of the loop at the first match it meets, the one nearest
\* to the tail
RECURSIVE ScanTasks_StopsAtFirstMatch(_, _, _, _, _, _)
ScanTasks_StopsAtFirstMatch(existedTaskIndex, floor, indexToInsert, flags, scanned, objectToAdd) ==
    IF existedTaskIndex < floor
    THEN [indexToInsert |-> indexToInsert, flags |-> flags, scanned |-> scanned]
    ELSE LET existedTask == tasks[existedTaskIndex + 1]
             lk == isObjectToAdd_ParentLookup(existedTask, objectToAdd)
             md == isExistedTask_ParentMasterDetail(existedTask, objectToAdd, flags)
         IN  IF lk /\ ~md
             THEN [indexToInsert |-> existedTaskIndex, flags |-> flags,
                   scanned |-> scanned \cup {existedTaskIndex}]
             ELSE ScanTasks_StopsAtFirstMatch(existedTaskIndex - 1, floor, indexToInsert,
                       IF md THEN [flags EXCEPT ![existedTask] = TRUE] ELSE flags,
                       scanned \cup {existedTaskIndex},
                       objectToAdd)

\* the for loop of the general case, from existedTaskIndex down to the floor:
\* the index to insert at, the flags it leaves and the indices it examined
RECURSIVE ScanTasks(_, _, _, _, _, _)
ScanTasks(existedTaskIndex, floor, indexToInsert, flags, scanned, objectToAdd) ==
    IF existedTaskIndex < floor
    THEN [indexToInsert |-> indexToInsert, flags |-> flags, scanned |-> scanned]
    ELSE LET existedTask == tasks[existedTaskIndex + 1]
             lk == isObjectToAdd_ParentLookup(existedTask, objectToAdd)
             md == isExistedTask_ParentMasterDetail(existedTask, objectToAdd, flags)
         IN  ScanTasks(existedTaskIndex - 1, floor,
                       IF lk /\ ~md THEN existedTaskIndex ELSE indexToInsert,
                       IF ~(lk /\ ~md) /\ md
                          THEN [flags EXCEPT ![existedTask] = TRUE] ELSE flags,
                       scanned \cup {existedTaskIndex},
                       objectToAdd)

SetupAddObject ==
    /\ pc = "setup"
    /\ objIndex <= Len(objects)
    /\ LET objectToAdd == objects[objIndex]
           newFlags == [n \in DOMAIN isMasterDetailTask \cup {objectToAdd.name} |->
                          IF n \in DOMAIN isMasterDetailTask
                          THEN isMasterDetailTask[n] ELSE FALSE]
       IN
       /\ objects' = [objects EXCEPT
                        ![objIndex].processAllSource = ProcessAllSource(objectToAdd),
                        ![objIndex].processAllTarget = ProcessAllTarget(objectToAdd)]
       /\ IF objectToAdd.name = RECORD_TYPE_SOBJECT_NAME
          THEN /\ tasks' = <<objectToAdd.name>> \o tasks
               /\ lowerIndexForAnyObjects' = lowerIndexForAnyObjects + 1
               /\ lowerIndexForReadonlyObjects' = lowerIndexForReadonlyObjects + 1
               /\ isMasterDetailTask' = newFlags
               /\ lastInsert' = [name |-> objectToAdd.name, rule |-> "recordType",
                                 index |-> 0, scanned |-> {}, before |-> tasks]
          ELSE IF objectToAdd.isReadonlyObject
          THEN /\ tasks' = Splice(tasks, lowerIndexForReadonlyObjects, objectToAdd.name)
               /\ lowerIndexForAnyObjects' = lowerIndexForAnyObjects + 1
               /\ UNCHANGED lowerIndexForReadonlyObjects
               /\ isMasterDetailTask' = newFlags
               /\ lastInsert' = [name |-> objectToAdd.name, rule |-> "readonly",
                                 index |-> lowerIndexForReadonlyObjects,
                                 scanned |-> {}, before |-> tasks]
          ELSE IF Len(tasks) = 0
          THEN /\ tasks' = Append(tasks, objectToAdd.name)
               /\ UNCHANGED <<lowerIndexForAnyObjects, lowerIndexForReadonlyObjects>>
               /\ isMasterDetailTask' = newFlags
               /\ lastInsert' = [name |-> objectToAdd.name, rule |-> "first",
                                 index |-> 0, scanned |-> {}, before |-> tasks]
          ELSE LET scan == ScanTasks(Len(tasks) - 1, ScanFloor(lowerIndexForAnyObjects),
                                     Len(tasks), newFlags, {}, objectToAdd)
               IN  /\ tasks' = Splice(tasks, scan.indexToInsert, objectToAdd.name)
                   /\ UNCHANGED <<lowerIndexForAnyObjects, lowerIndexForReadonlyObjects>>
                   /\ isMasterDetailTask' = scan.flags
                   /\ lastInsert' = [name |-> objectToAdd.name, rule |-> "general",
                                     index |-> scan.indexToInsert,
                                     scanned |-> scan.scanned, before |-> tasks]
    /\ objIndex' = objIndex + 1
    /\ UNCHANGED <<queryTasks, script, csvVars, pc, loopVars>>

----------------------------------------------------------------------------
(* setup(): the query order *)

\* task.sourceData.allRecords: the source side of the task is retrieved in full
SourceAllRecords(task) == ObjectByName(task).processAllSource

\* task.sourceData.allRecords || task.scriptObject.isLimitedQuery
IsQueriedFirst(task) ==
    SourceAllRecords(task) \/ ObjectByName(task).isLimitedQuery

RECURSIVE PushUnrestricted(_, _)
PushUnrestricted(rest, acc) ==
    IF rest = <<>> THEN acc
    ELSE PushUnrestricted(Tail(rest),
            IF IsQueriedFirst(Head(rest)) THEN Append(acc, Head(rest)) ELSE acc)

\* the second pass without its indexOf test
RECURSIVE PushRemaining_Unchecked(_, _)
PushRemaining_Unchecked(rest, acc) ==
    IF rest = <<>> THEN acc
    ELSE PushRemaining_Unchecked(Tail(rest), Append(acc, Head(rest)))

RECURSIVE PushRemaining(_, _)
PushRemaining(rest, acc) ==
    IF rest = <<>> THEN acc
    ELSE PushRemaining(Tail(rest),
            IF IndexOf(acc, Head(rest)) < 0 THEN Append(acc, Head(rest)) ELSE acc)

SetupQueryOrder ==
    /\ pc = "setup"
    /\ objIndex > Len(objects)
    /\ queryTasks' = PushRemaining(tasks, PushUnrestricted(tasks, queryTasks))
    /\ pc' = "validateCSVFiles"
    /\ UNCHANGED <<objects, tasks, isMasterDetailTask, lowerIndexForAnyObjects,
                   lowerIndexForReadonlyObjects, objIndex, lastInsert, script, csvVars,
                   loopVars>>

----------------------------------------------------------------------------
(* The job pipeline: the order in which the run command calls the job *)

NextMethod(method) ==
    CASE method = "validateCSVFiles" -> "getTotalRecordsCount"
      [] method = "getTotalRecordsCount" -> "deleteOldRecords"
      [] method = "deleteOldRecords" -> "retrieveRecords"
      [] method = "retrieveRecords" -> "updateRecords"
      [] method = "updateRecords" -> "done"

\* a loop that does not wait for the call it made
NoneInFlight_NotAwaited == TRUE

\* `await`: the caller goes on only when the awaited call has completed
NoneInFlight == inFlight = {}

TaskCall(op, task, direction, reversed) ==
    [op |-> op, task |-> task, pass |-> pass, direction |-> direction,
     reversed |-> reversed]

Called(c) == [ev |-> "call", c |-> c]
Completed(c) == [ev |-> "return", c |-> c]

\* a logger call made during the given pass of the running method
Logged(msg, during) == [msg |-> msg, pass |-> during]

\* the awaited call of the running loop is started
StartCall(c) ==
    /\ NoneInFlight
    /\ inFlight' = {c}
    /\ calls' = Append(calls, Called(c))

\* the awaited call of the running loop completes
EndCall(c) ==
    /\ inFlight' = inFlight \ {c}
    /\ calls' = Append(calls, Completed(c))

----------------------------------------------------------------------------
(* CachedCSVContent *)

\* a clear() that restarts the counter at 0
ClearedCache_CounterFromZero ==
    [csvDataCacheMap |-> <<>>, updatedFilenames |-> {}, idCounter |-> 0]

\* CachedCSVContent.clear(), also run by the constructor
ClearedCache == [csvDataCacheMap |-> <<>>, updatedFilenames |-> {}, idCounter |-> 1]

\* the decimal digits of a natural number, most significant first
RECURSIVE Digits(_)
Digits(n) == IF n < 10 THEN <<n>> ELSE Append(Digits(n \div 10), n % 10)

\* Common.addLeadnigZeros(num, size): the digits of num, padded with zeros on the
\* left to at least `size` digits
RECURSIVE AddLeadingZeros(_, _)
AddLeadingZeros(digits, size) ==
    IF Len(digits) >= size THEN digits ELSE AddLeadingZeros(<<0>> \o digits, size)

ID_DIGITS == 16

\* a read of nextId that leaves idCounter as it was
NextId_NotAdvanced(cache) ==
    [id |-> <<"ID">> \o AddLeadingZeros(Digits(cache.idCounter), ID_DIGITS),
     cache |-> cache]

\* get nextId(): the identifier returned and the cache after the read
NextId(cache) ==
    [id |-> <<"ID">> \o AddLeadingZeros(Digits(cache.idCounter), ID_DIGITS),
     cache |-> [cache EXCEPT !.idCounter = @ + 1]]

\* Map.prototype.has / get / set on csvDataCacheMap, kept in insertion order
CacheHas(map, key) == \E k \in 1..Len(map) : map[k].key = key
CacheGet(map, key) == map[CHOOSE k \in 1..Len(map) : map[k].key = key].value
CacheSet(map, key, value) ==
    IF CacheHas(map, key)
    THEN [k \in 1..Len(map) |-> IF map[k].key = key
                                THEN [key |-> key, value |-> value] ELSE map[k]]
    ELSE Append(map, [key |-> key, value |-> value])

----------------------------------------------------------------------------
(* validateCSVFiles() *)

\* task.data.csvFilename and task.data.sourceCsvFilename of a task
CsvFilename(task) == task

IoCall(op, path) ==
    [op |-> op, task |-> path, pass |-> pass, direction |-> "", reversed |-> FALSE]

\* the rows Common.readCsvFileAsync can return for the value-mapping file: none
\* (absent or empty file), or a usable row and a row without ObjectName
ValueMappingFiles ==
    { <<>>,
      << [ObjectName |-> "O1", FieldName |-> "F", RawValue |-> "raw", Value |-> "val"],
         [ObjectName |-> "", FieldName |-> "F", RawValue |-> "raw", Value |-> "val"] >> }

\* the forEach of _loadCSVValueMappingFileAsync over the rows read
ValueMappingOf(csvRows) ==
    {[key |-> <<csvRows[k].ObjectName, csvRows[k].FieldName>>,
      raw |-> csvRows[k].RawValue, value |-> csvRows[k].Value] :
        k \in {j \in 1..Len(csvRows) :
                 csvRows[j].ObjectName # "" /\ csvRows[j].FieldName # ""}}

\* the source is not file: validateCSVFiles does nothing
ValidateCSVFilesNotFile ==
    /\ pc = "validateCSVFiles"
    /\ script.sourceMedia # "File"
    /\ pc' = NextMethod("validateCSVFiles")
    /\ pass' = 1
    /\ calls' = <<>>
    /\ log' = <<>>
    /\ returned' = <<>>
    /\ UNCHANGED <<setupVars, script, csvVars, index, retrieved, updated, deleted,
                   inFlight>>

\* await this._mergeUserGroupCSVfiles() is started
MergeUserGroupCSVfilesCall ==
    /\ pc = "validateCSVFiles"
    /\ script.sourceMedia = "File"
    /\ pc' = "merging"
    /\ pass' = 1
    /\ log' = <<>>
    /\ returned' = <<>>
    /\ NoneInFlight
    /\ inFlight' = {IoCall("mergeCsvFilesAsync", "UserAndGroup")}
    /\ calls' = <<Called(IoCall("mergeCsvFilesAsync", "UserAndGroup"))>>
    /\ UNCHANGED <<setupVars, script, csvVars, index, retrieved, updated, deleted>>

\* the merge completes; await this._loadCSVValueMappingFileAsync() is started
LoadCSVValueMappingFileCall ==
    /\ pc = "merging"
    /\ \E c \in inFlight :
          /\ c.op = "mergeCsvFilesAsync"
          /\ inFlight' = (inFlight \ {c}) \cup {IoCall("readCsvFileAsync", "ValueMapping")}
          /\ calls' = calls \o <<Completed(c),
                                 Called(IoCall("readCsvFileAsync", "ValueMapping"))>>
    /\ pc' = "loadingValueMapping"
    /\ UNCHANGED <<setupVars, script, csvVars, pass, index, retrieved, updated, deleted,
                   returned, log>>

\* a copy step that copies nothing
CopiedFiles_None == {}

\* the files _copyCSVFilesToSourceSubDir copies: those of the tasks whose file exists
CopiedFiles == {CsvFilename(tasks[k]) : k \in 1..Len(tasks)} \cap disk.csvFiles

\* an option that is never honoured
ImportCSVFilesAsIs_Ignored == FALSE

\* the caller opted to import the files as they are
ImportCSVFilesAsIs == script.importCSVFilesAsIs

\* the value-mapping file has been read; the task files are copied aside; then
\* either validate-and-repair begins or, importing as is, validateCSVFiles returns
CopyCSVFilesToSourceSubDir ==
    /\ pc = "loadingValueMapping"
    /\ \E c \in inFlight, csvRows \in ValueMappingFiles :
          /\ c.op = "readCsvFileAsync"
          /\ inFlight' = inFlight \ {c}
          /\ calls' = calls \o <<Completed(c), Called(IoCall("copyFileSync", "tasks")),
                                 Completed(IoCall("copyFileSync", "tasks"))>>
          /\ csvValuesMapping' = csvValuesMapping \cup ValueMappingOf(csvRows)
          /\ IF ~ImportCSVFilesAsIs
             THEN log' = (IF Len(csvRows) > 0
                          THEN <<Logged("readingValuesMappingFile", pass)>> ELSE <<>>)
                         \o <<Logged("validatingAndFixingSourceCSVFiles", pass)>>
             ELSE log' = (IF Len(csvRows) > 0
                          THEN <<Logged("readingValuesMappingFile", pass)>> ELSE <<>>)
                         \o <<Logged("validatingSourceCSVFilesSkipped", pass)>>
    /\ disk' = [disk EXCEPT !.sourceFiles = @ \cup CopiedFiles]
    /\ pc' = IF ~ImportCSVFilesAsIs
             THEN "validateCSV" ELSE NextMethod("validateCSVFiles")
    /\ index' = 0
    /\ UNCHANGED <<setupVars, script, csvIssues, cachedCSVContent, abortWasPrompted,
                   pass, retrieved, updated, deleted, returned>>

----------------------------------------------------------------------------
(* _validateAndRepairSourceCSVFiles() *)

\* what task.validateCSV() can return: no issue, or an issue of its file's structure
ValidateCSVResults(task) == { <<>>, <<[task |-> task, kind |-> "structure"]>> }

ValidateCSVCall ==
    /\ pc = "validateCSV"
    /\ index < Len(tasks)
    /\ StartCall(TaskCall("validateCSV", tasks[index + 1], "", FALSE))
    /\ UNCHANGED <<setupVars, script, csvVars, pc, pass, index, retrieved, updated,
                   deleted, returned, log>>

ValidateCSVReturn ==
    /\ pc = "validateCSV"
    /\ \E c \in inFlight :
          /\ c.op = "validateCSV"
          /\ EndCall(c)
          /\ \E issues \in ValidateCSVResults(c.task) :
                /\ csvIssues' = csvIssues \o issues
                /\ returned' = returned \o issues
    /\ index' = index + 1
    /\ UNCHANGED <<setupVars, script, csvValuesMapping, cachedCSVContent,
                   abortWasPrompted, disk, pc, pass, retrieved, updated, deleted,
                   log>>

\* Common.abortWithPrompt: the user is asked whether to go on; the call of the
\* prompt carries the number of issues shown
PromptCall == IoCall("abortWithPrompt", Len(csvIssues))

\* after the structure loop: prompt when issues were found, else go on to repair
ValidateCSVEnd ==
    /\ pc = "validateCSV"
    /\ index >= Len(tasks)
    /\ NoneInFlight
    /\ IF Len(csvIssues) > 0
       THEN /\ inFlight' = {PromptCall}
            /\ calls' = Append(calls, Called(PromptCall))
            /\ pc' = "promptStructure"
            /\ UNCHANGED <<abortWasPrompted, index>>
       ELSE /\ abortWasPrompted' = FALSE
            /\ pc' = "repairCSV"
            /\ index' = 0
            /\ UNCHANGED <<inFlight, calls>>
    /\ UNCHANGED <<setupVars, script, csvValuesMapping, csvIssues, cachedCSVContent,
                   disk, pass, retrieved, updated, deleted, returned, log>>

\* a report that leaves out the issues found by the repair
ReportWrite_StructureOnly ==
    IoCall("saveCSVFileAsync", SelectSeq(csvIssues, LAMBDA issue : issue.kind = "structure"))

\* the report file CSV_ISSUES_ERRORS_FILENAME written with all issues
ReportWrite == IoCall("saveCSVFileAsync", csvIssues)

\* the prompt after the structure loop returned without aborting: the report phase
\* is not to prompt again
AbortWasPrompted_Forgotten == FALSE

\* abortWasPrompted after the prompt that follows the structure loop
AbortWasPrompted == TRUE

\* the prompt after the structure loop is answered
PromptStructureReturn ==
    /\ pc = "promptStructure"
    /\ \E c \in inFlight, answer \in {"continue", "abort"} :
          /\ c.op = "abortWithPrompt"
          /\ inFlight' = inFlight \ {c}
          /\ IF answer = "continue"
             THEN /\ calls' = calls \o <<Called(ReportWrite), Completed(ReportWrite),
                                         Completed(c)>>
                  /\ abortWasPrompted' = AbortWasPrompted
                  /\ pc' = "repairCSV"
                  /\ index' = 0
             ELSE /\ calls' = Append(calls, Completed(c))
                  /\ pc' = "aborted"
                  /\ UNCHANGED <<abortWasPrompted, index>>
    /\ UNCHANGED <<setupVars, script, csvValuesMapping, csvIssues, cachedCSVContent,
                   disk, pass, retrieved, updated, deleted, returned, log>>

\* what task.repairCSV(cachedCSVContent) can do to the cache and return:
\*   "none"   it leaves the cache alone,
\*   "read"   it reads its file into the cache,
\*   "repair" it reads its file, adds a row under a synthesized id and marks the
\*            file updated,
\*   "mark"   it marks its file updated without putting it in csvDataCacheMap
RepairEffects == {"none", "read", "repair", "mark"}

RepairedCache(cache, task, effect) ==
    LET path == CsvFilename(task)
        rows == IF CacheHas(cache.csvDataCacheMap, path)
                THEN CacheGet(cache.csvDataCacheMap, path) ELSE {<<"row">>}
    IN  CASE effect = "none" -> cache
          [] effect = "read" ->
                [cache EXCEPT !.csvDataCacheMap = CacheSet(@, path, rows)]
          [] effect = "mark" ->
                [cache EXCEPT !.updatedFilenames = @ \cup {path}]
          [] effect = "repair" ->
                LET next == NextId(cache)
                IN  [next.cache EXCEPT
                        !.csvDataCacheMap = CacheSet(@, path, rows \cup {next.id}),
                        !.updatedFilenames = @ \cup {path}]

RepairCSVResults(task) == { <<>>, <<[task |-> task, kind |-> "data"]>> }

RepairCSVCall ==
    /\ pc = "repairCSV"
    /\ index < Len(tasks)
    /\ StartCall(TaskCall("repairCSV", tasks[index + 1], "", FALSE))
    /\ UNCHANGED <<setupVars, script, csvVars, pc, pass, index, retrieved, updated,
                   deleted, returned, log>>

RepairCSVReturn ==
    /\ pc = "repairCSV"
    /\ \E c \in inFlight :
          /\ c.op = "repairCSV"
          /\ EndCall(c)
          /\ \E issues \in RepairCSVResults(c.task), effect \in RepairEffects :
                /\ csvIssues' = csvIssues \o issues
                /\ returned' = returned \o issues
                /\ cachedCSVContent' = RepairedCache(cachedCSVContent, c.task, effect)
    /\ index' = index + 1
    /\ UNCHANGED <<setupVars, script, csvValuesMapping, abortWasPrompted, disk, pc,
                   pass, retrieved, updated, deleted, log>>

\* saveCachedCsvDataFiles(): the writes made for the keys of the cache, in order
RECURSIVE CachedFileWrites(_, _)
CachedFileWrites(cache, i) ==
    IF i > Len(cache.csvDataCacheMap) THEN <<>>
    ELSE LET filePath == cache.csvDataCacheMap[i].key
             write == IoCall("writeCsvFileAsync",
                             [path |-> filePath,
                              rows |-> CacheGet(cache.csvDataCacheMap, filePath)])
         IN  (IF filePath \in cache.updatedFilenames
              THEN <<Called(write), Completed(write)>> ELSE <<>>)
             \o CachedFileWrites(cache, i + 1)

\* the paths saveCachedCsvDataFiles() writes
WrittenFiles(cache) ==
    {cache.csvDataCacheMap[i].key : i \in 1..Len(cache.csvDataCacheMap)}
        \cap cache.updatedFilenames

\* after the repair loop: the updated files are saved and their number is logged
SaveCachedCsvDataFiles ==
    /\ pc = "repairCSV"
    /\ index >= Len(tasks)
    /\ NoneInFlight
    /\ calls' = calls \o CachedFileWrites(cachedCSVContent, 1)
    /\ log' = Append(log, [msg |-> "csvFilesWereUpdated", pass |-> pass,
                           count |-> Cardinality(cachedCSVContent.updatedFilenames)])
    /\ disk' = [disk EXCEPT !.csvFiles = @ \cup WrittenFiles(cachedCSVContent)]
    /\ pc' = "reporting"
    /\ UNCHANGED <<setupVars, script, csvValuesMapping, csvIssues, cachedCSVContent,
                   abortWasPrompted, pass, index, retrieved, updated, deleted,
                   inFlight, returned>>

\* the report phase: prompt, or write the report, or log that there is no issue
ReportCSVIssues ==
    /\ pc = "reporting"
    /\ IF Len(csvIssues) > 0
       THEN IF ~abortWasPrompted
            THEN /\ inFlight' = {PromptCall}
                 /\ calls' = Append(calls, Called(PromptCall))
                 /\ pc' = "promptData"
                 /\ UNCHANGED log
            ELSE /\ calls' = calls \o <<Called(ReportWrite), Completed(ReportWrite)>>
                 /\ log' = Append(log, Logged("issuesFoundDuringCSVValidation", pass))
                 /\ pc' = "validated"
                 /\ UNCHANGED inFlight
       ELSE /\ log' = Append(log, Logged("noIssuesFoundDuringCSVValidation", pass))
            /\ pc' = "validated"
            /\ UNCHANGED <<inFlight, calls>>
    /\ UNCHANGED <<setupVars, script, csvVars, pass, index, retrieved, updated,
                   deleted, returned>>

\* the prompt of the report phase is answered
PromptDataReturn ==
    /\ pc = "promptData"
    /\ \E c \in inFlight, answer \in {"continue", "abort"} :
          /\ c.op = "abortWithPrompt"
          /\ inFlight' = inFlight \ {c}
          /\ IF answer = "continue"
             THEN /\ calls' = calls \o <<Called(ReportWrite), Completed(ReportWrite),
                                         Completed(c)>>
                  /\ pc' = "validated"
             ELSE /\ calls' = Append(calls, Completed(c))
                  /\ pc' = "aborted"
    /\ UNCHANGED <<setupVars, script, csvVars, pass, index, retrieved, updated,
                   deleted, returned, log>>

\* validateCSVFiles() after validate-and-repair returned: exit when only validation
\* was asked for, else free the cache and return
ValidateCSVFilesEnd ==
    /\ pc = "validated"
    /\ log' = Append(log, Logged("validationAndFixingsourceCSVFilesCompleted", pass))
    /\ IF script.validateCSVFilesOnly
       THEN /\ pc' = "SuccessExit"
            /\ UNCHANGED cachedCSVContent
       ELSE /\ pc' = NextMethod("validateCSVFiles")
            /\ cachedCSVContent' = ClearedCache
    /\ UNCHANGED <<setupVars, script, csvValuesMapping, csvIssues, abortWasPrompted,
                   disk, pass, index, retrieved, updated, deleted, inFlight, calls,
                   returned>>

----------------------------------------------------------------------------
(* getTotalRecordsCount() *)

GetTotalRecordsCountBegin ==
    /\ pc = "getTotalRecordsCount"
    /\ pc' = "counting"
    /\ pass' = 1
    /\ index' = 0
    /\ returned' = <<>>
    /\ log' = <<Logged("newLine", 1), Logged("gettingRecordsCount", 1)>>
    /\ UNCHANGED <<setupVars, script, csvVars, retrieved, updated, deleted, inFlight>>
    /\ calls' = <<>>

GetTotalRecordsCountCall ==
    /\ pc = "counting"
    /\ index < Len(tasks)
    /\ StartCall(TaskCall("getTotalRecordsCountAsync", tasks[index + 1], "", FALSE))
    /\ UNCHANGED <<setupVars, script, csvVars, pc, pass, index, retrieved, updated, deleted,
                   returned, log>>

GetTotalRecordsCountReturn ==
    /\ pc = "counting"
    /\ \E c \in inFlight :
          /\ c.op = "getTotalRecordsCountAsync"
          /\ EndCall(c)
    /\ index' = index + 1
    /\ UNCHANGED <<setupVars, script, csvVars, pc, pass, retrieved, updated, deleted,
                   returned, log>>

GetTotalRecordsCountEnd ==
    /\ pc = "counting"
    /\ index >= Len(tasks)
    /\ NoneInFlight
    /\ pc' = NextMethod("getTotalRecordsCount")
    /\ UNCHANGED <<setupVars, script, csvVars, loopVars>>

----------------------------------------------------------------------------
(* deleteOldRecords() *)

\* a loop that starts one task too low and never reaches the last task
DeleteStartIndex_SkipsLast == Len(tasks) - 2

\* where the loop of deleteOldRecords() starts: at the last task
DeleteStartIndex == Len(tasks) - 1

DeleteOldRecordsBegin ==
    /\ pc = "deleteOldRecords"
    /\ pc' = "deleting"
    /\ pass' = 1
    /\ deleted' = FALSE
    /\ index' = DeleteStartIndex
    /\ returned' = <<FALSE>>
    /\ log' = <<Logged("newLine", 1), Logged("deletingOldData", 1)>>
    /\ UNCHANGED <<setupVars, script, csvVars, retrieved, updated, inFlight>>
    /\ calls' = <<>>

DeleteOldRecordsCall ==
    /\ pc = "deleting"
    /\ index >= 0
    /\ StartCall(TaskCall("deleteOldTargetRecords", tasks[index + 1], "", FALSE))
    /\ UNCHANGED <<setupVars, script, csvVars, pc, pass, index, retrieved, updated, deleted,
                   returned, log>>

DeleteOldRecordsReturn ==
    /\ pc = "deleting"
    /\ \E c \in inFlight :
          /\ c.op = "deleteOldTargetRecords"
          /\ EndCall(c)
    /\ \E result \in BOOLEAN :
          /\ deleted' = (result \/ deleted)
          /\ returned' = [returned EXCEPT ![1] = @ \/ result]
    /\ index' = index - 1
    /\ UNCHANGED <<setupVars, script, csvVars, pc, pass, retrieved, updated, log>>

DeleteOldRecordsEnd ==
    /\ pc = "deleting"
    /\ index < 0
    /\ NoneInFlight
    /\ log' = Append(log, IF deleted THEN Logged("deletingOldDataCompleted", 1)
                                     ELSE Logged("deletingOldDataSkipped", 1))
    /\ pc' = NextMethod("deleteOldRecords")
    /\ UNCHANGED <<setupVars, script, csvVars, pass, index, retrieved, updated, deleted,
                   inFlight, calls, returned>>

----------------------------------------------------------------------------
(* retrieveRecords() *)

RetrievePasses == 5

\* the arguments of the five loops with the reversed-mode flag of pass 3 left out
RetrieveArgs_NeverReversed(p) ==
    CASE p = 1 -> [direction |-> "forwards", reversed |-> FALSE]
      [] p = 2 -> [direction |-> "backwards", reversed |-> FALSE]
      [] p = 3 -> [direction |-> "backwards", reversed |-> FALSE]
      [] p = 4 -> [direction |-> "forwards", reversed |-> FALSE]
      [] p = 5 -> [direction |-> "target", reversed |-> FALSE]

\* the arguments of task.retrieveRecords in each of the five loops
RetrieveArgs(p) ==
    CASE p = 1 -> [direction |-> "forwards", reversed |-> FALSE]
      [] p = 2 -> [direction |-> "backwards", reversed |-> FALSE]
      [] p = 3 -> [direction |-> "backwards", reversed |-> FALSE]
      [] p = 4 -> [direction |-> "forwards", reversed |-> TRUE]
      [] p = 5 -> [direction |-> "target", reversed |-> FALSE]

\* what is logged before the loop of each pass
RetrieveHeader(p) ==
    CASE p = 1 -> <<Logged("newLine", 1), Logged("retrievingData Step1", 1)>>
      [] p = 2 -> <<Logged("newLine", 2), Logged("retrievingData Step2", 2),
                    Logged("Pass1", 2), Logged("separator", 2)>>
      [] p = 3 -> <<Logged("newLine", 3), Logged("Pass2", 3), Logged("separator", 3)>>
      [] p = 4 -> <<Logged("newLine", 4), Logged("Pass3", 4), Logged("separator", 4)>>
      [] p = 5 -> <<Logged("newLine", 5), Logged("target", 5), Logged("separator", 5)>>

\* what is logged after the loop of each pass
RetrieveFooter(p, anyRetrieved) ==
    (IF anyRetrieved THEN <<>> ELSE <<Logged("noRecords", p)>>)
    \o (CASE p = 1 -> <<Logged("retrievingDataCompleted Step1", 1)>>
          [] p = 5 -> <<Logged("retrievingDataCompleted Step2", 5)>>
          [] OTHER -> <<>>)

\* the closing summary, one line per task of queryTasks
FetchingSummary ==
    <<Logged("newLine", RetrievePasses), Logged("fetchingSummary", RetrievePasses)>>
    \o [k \in 1..Len(queryTasks) |-> Logged("queryingTotallyFetched", RetrievePasses)]

\* `retrieved = false` before the loop of a pass, with the flag carried over instead
RetrievedAtPassStart_Carried == retrieved

\* `retrieved = false` before the loop of a pass
RetrievedAtPassStart == FALSE

RetrieveRecordsBegin ==
    /\ pc = "retrieveRecords"
    /\ pc' = "retrieving"
    /\ pass' = 1
    /\ retrieved' = FALSE
    /\ index' = 0
    /\ returned' = <<FALSE>>
    /\ log' = RetrieveHeader(1)
    /\ UNCHANGED <<setupVars, script, csvVars, updated, deleted, inFlight>>
    /\ calls' = <<>>

RetrieveRecordsCall ==
    /\ pc = "retrieving"
    /\ index < Len(queryTasks)
    /\ StartCall(TaskCall("retrieveRecords", queryTasks[index + 1],
                          RetrieveArgs(pass).direction, RetrieveArgs(pass).reversed))
    /\ UNCHANGED <<setupVars, script, csvVars, pc, pass, index, retrieved, updated, deleted,
                   returned, log>>

RetrieveRecordsReturn ==
    /\ pc = "retrieving"
    /\ \E c \in inFlight :
          /\ c.op = "retrieveRecords"
          /\ EndCall(c)
    /\ \E result \in BOOLEAN :
          /\ retrieved' = (result \/ retrieved)
          /\ returned' = [returned EXCEPT ![pass] = @ \/ result]
    /\ index' = index + 1
    /\ UNCHANGED <<setupVars, script, csvVars, pc, pass, updated, deleted, log>>

RetrieveRecordsNextPass ==
    /\ pc = "retrieving"
    /\ index >= Len(queryTasks)
    /\ NoneInFlight
    /\ pass < RetrievePasses
    /\ log' = log \o RetrieveFooter(pass, retrieved) \o RetrieveHeader(pass + 1)
    /\ retrieved' = RetrievedAtPassStart
    /\ pass' = pass + 1
    /\ index' = 0
    /\ returned' = Append(returned, FALSE)
    /\ UNCHANGED <<setupVars, script, csvVars, pc, updated, deleted, inFlight, calls>>

RetrieveRecordsEnd ==
    /\ pc = "retrieving"
    /\ index >= Len(queryTasks)
    /\ NoneInFlight
    /\ pass = RetrievePasses
    /\ log' = log \o RetrieveFooter(pass, retrieved) \o FetchingSummary
    /\ pc' = NextMethod("retrieveRecords")
    /\ UNCHANGED <<setupVars, script, csvVars, pass, index, retrieved, updated, deleted,
                   inFlight, calls, returned>>

----------------------------------------------------------------------------
(* updateRecords() *)

UpdatePasses == 2

\* the argument of task.updateRecords in each of the two loops
UpdateDirection(p) == IF p = 1 THEN "forwards" ELSE "backwards"

UpdateHeader(p) ==
    <<Logged("newLine", p),
      Logged(IF p = 1 THEN "updatingTarget Step1" ELSE "updatingTarget Step2", p)>>

UpdateFooter(p, count) ==
    IF count > 0
    THEN <<Logged(IF p = 1 THEN "updatingTargetCompleted Step1"
                           ELSE "updatingTargetCompleted Step2", p)>>
    ELSE <<Logged("nothingUpdated", p)>>

\* `updated = 0` before the second loop, with the count carried over instead
UpdatedAtStep2_Carried == updated

\* `updated = 0` before the second loop
UpdatedAtStep2 == 0

UpdateRecordsBegin ==
    /\ pc = "updateRecords"
    /\ pc' = "updating"
    /\ pass' = 1
    /\ updated' = 0
    /\ index' = 0
    /\ returned' = <<0>>
    /\ log' = UpdateHeader(1)
    /\ UNCHANGED <<setupVars, script, csvVars, retrieved, deleted, inFlight>>
    /\ calls' = <<>>

UpdateRecordsCall ==
    /\ pc = "updating"
    /\ index < Len(tasks)
    /\ StartCall(TaskCall("updateRecords", tasks[index + 1], UpdateDirection(pass), FALSE))
    /\ UNCHANGED <<setupVars, script, csvVars, pc, pass, index, retrieved, updated, deleted,
                   returned, log>>

UpdateRecordsReturn ==
    /\ pc = "updating"
    /\ \E c \in inFlight :
          /\ c.op = "updateRecords"
          /\ EndCall(c)
    /\ \E count \in 0..MaxUpdatedPerTask :
          /\ updated' = updated + count
          /\ returned' = [returned EXCEPT ![pass] = @ + count]
    /\ index' = index + 1
    /\ UNCHANGED <<setupVars, script, csvVars, pc, pass, retrieved, deleted, log>>

UpdateRecordsNextPass ==
    /\ pc = "updating"
    /\ index >= Len(tasks)
    /\ NoneInFlight
    /\ pass < UpdatePasses
    /\ log' = log \o UpdateFooter(pass, updated) \o UpdateHeader(pass + 1)
    /\ updated' = UpdatedAtStep2
    /\ pass' = pass + 1
    /\ index' = 0
    /\ returned' = Append(returned, 0)
    /\ UNCHANGED <<setupVars, script, csvVars, pc, retrieved, deleted, inFlight, calls>>

UpdateRecordsEnd ==
    /\ pc = "updating"
    /\ index >= Len(tasks)
    /\ NoneInFlight
    /\ pass = UpdatePasses
    /\ log' = log \o UpdateFooter(pass, updated)
    /\ pc' = NextMethod("updateRecords")
    /\ UNCHANGED <<setupVars, script, csvVars, pass, index, retrieved, updated, deleted,
                   inFlight, calls, returned>>

----------------------------------------------------------------------------
(* Specifications *)

\* the state after construction, for the scripts of up to maxN objects with up to
\* maxRel relationships, with (anyKind) or without RecordType / read-only objects
InitJob(maxN, maxRel, anyKind, flagSet, scriptSet) ==
    /\ csvValuesMapping = {}
    /\ csvIssues = <<>>
    /\ cachedCSVContent = ClearedCache
    /\ abortWasPrompted = FALSE
    /\ \E n \in 1..maxN :
         \E rt \in 0..(IF anyKind THEN n ELSE 0),
            ro \in (IF anyKind THEN [1..n -> BOOLEAN] ELSE {[i \in 1..n |-> FALSE]}),
            rels \in RelationSets(n, maxRel), fl \in [1..n -> flagSet] :
                objects = Script(n, rt, ro, rels, fl)
    /\ script \in scriptSet
    /\ \E missing \in {{}, {objects[1].name}} :
          disk = [csvFiles |-> {objects[i].name : i \in 1..Len(objects)} \ missing,
                  sourceFiles |-> {}]
    /\ tasks = <<>>
    /\ queryTasks = <<>>
    /\ isMasterDetailTask = <<>>
    /\ lowerIndexForAnyObjects = 0
    /\ lowerIndexForReadonlyObjects = 0
    /\ objIndex = 1
    /\ lastInsert = [name |-> "", rule |-> "none", index |-> 0, scanned |-> {},
                     before |-> <<>>]
    /\ pc = "setup"
    /\ pass = 0
    /\ index = 0
    /\ retrieved = FALSE
    /\ updated = 0
    /\ deleted = FALSE
    /\ inFlight = {}
    /\ calls = <<>>
    /\ returned = <<>>
    /\ log = <<>>

\* an org-sourced script with no option set
OrgScript ==
    [sourceMedia |-> "Org", importCSVFilesAsIs |-> FALSE, validateCSVFilesOnly |-> FALSE]

\* setup() on scripts with free relationships and kinds
InitSetup ==
    /\ InitJob(MaxObjects, MaxRelations, TRUE, {NoFlags}, {OrgScript})
    /\ objects[1].name \in disk.csvFiles

NextSetup == SetupAddObject \/ SetupQueryOrder

SpecSetup == InitSetup /\ [][NextSetup]_vars

\* setup() on scripts of ordinary objects with free flags
InitQuery ==
    /\ InitJob(MaxQueryObjects, 0, FALSE, QueryFlags, {OrgScript})
    /\ objects[1].name \in disk.csvFiles

SpecQuery == InitQuery /\ [][NextSetup]_vars

\* the flags of the objects of a script that is run through the pipeline
JobFlags == {NoFlags, [NoFlags EXCEPT !.allRecords = TRUE]}

\* the options of a file-sourced job
FileScripts ==
    [sourceMedia : {"File"}, importCSVFilesAsIs : BOOLEAN, validateCSVFilesOnly : BOOLEAN]

\* an org-sourced job on scripts with relationships and flags, or a file-sourced
\* job on scripts of plain objects
Init ==
    \/ /\ InitJob(MaxJobObjects, MaxJobRelations, FALSE, JobFlags, {OrgScript})
       /\ objects[1].name \in disk.csvFiles
    \/ InitJob(MaxJobObjects, 0, FALSE, {NoFlags}, FileScripts)

Next ==
    \/ SetupAddObject
    \/ SetupQueryOrder
    \/ ValidateCSVFilesNotFile
    \/ MergeUserGroupCSVfilesCall
    \/ LoadCSVValueMappingFileCall
    \/ CopyCSVFilesToSourceSubDir
    \/ ValidateCSVCall
    \/ ValidateCSVReturn
    \/ ValidateCSVEnd
    \/ PromptStructureReturn
    \/ RepairCSVCall
    \/ RepairCSVReturn
    \/ SaveCachedCsvDataFiles
    \/ ReportCSVIssues
    \/ PromptDataReturn
    \/ ValidateCSVFilesEnd
    \/ GetTotalRecordsCountBegin
    \/ GetTotalRecordsCountCall
    \/ GetTotalRecordsCountReturn
    \/ GetTotalRecordsCountEnd
    \/ DeleteOldRecordsBegin
    \/ DeleteOldRecordsCall
    \/ DeleteOldRecordsReturn
    \/ DeleteOldRecordsEnd
    \/ RetrieveRecordsBegin
    \/ RetrieveRecordsCall
    \/ RetrieveRecordsReturn
    \/ RetrieveRecordsNextPass
    \/ RetrieveRecordsEnd
    \/ UpdateRecordsBegin
    \/ UpdateRecordsCall
    \/ UpdateRecordsReturn
    \/ UpdateRecordsNextPass
    \/ UpdateRecordsEnd

Spec == Init /\ [][Next]_vars

----------------------------------------------------------------------------
(* CachedCSVContent on its own: the operations of the class and what the tasks do
   to its public fields, in any order *)

\* most reads of nextId between two clear()
MaxIds == 11

\* get nextId() is read; the identifier is kept in `returned`, which holds the
\* identifiers read since the cache was constructed or last cleared
ReadNextId ==
    /\ pc = "cache"
    /\ cachedCSVContent.idCounter <= MaxIds
    /\ LET next == NextId(cachedCSVContent)
       IN  /\ cachedCSVContent' = next.cache
           /\ returned' = Append(returned, next.id)
    /\ UNCHANGED <<setupVars, script, csvValuesMapping, csvIssues, abortWasPrompted,
                   disk, pc, pass, index, retrieved, updated, deleted, inFlight,
                   calls, log>>

\* clearCachedCSVData(): cachedCSVContent.clear()
ClearCachedCSVData ==
    /\ pc = "cache"
    /\ cachedCSVContent' = ClearedCache
    /\ returned' = <<>>
    /\ UNCHANGED <<setupVars, script, csvValuesMapping, csvIssues, abortWasPrompted,
                   disk, pc, pass, index, retrieved, updated, deleted, inFlight,
                   calls, log>>

\* a task puts its file in csvDataCacheMap or marks it updated
TouchCachedCSVContent ==
    /\ pc = "cache"
    /\ \E k \in 1..Len(tasks), effect \in {"read", "mark"} :
          cachedCSVContent' = RepairedCache(cachedCSVContent, tasks[k], effect)
    /\ UNCHANGED <<setupVars, script, csvValuesMapping, csvIssues, abortWasPrompted,
                   disk, pc, pass, index, retrieved, updated, deleted, inFlight,
                   calls, returned, log>>

\* a job of two tasks whose cache has just been constructed
InitCache ==
    /\ objects = Script(2, 0, [i \in 1..2 |-> FALSE], {}, [i \in 1..2 |-> NoFlags])
    /\ tasks = <<objects[1].name, objects[2].name>>
    /\ queryTasks = tasks
    /\ isMasterDetailTask = [name \in {objects[1].name, objects[2].name} |-> FALSE]
    /\ lowerIndexForAnyObjects = 0
    /\ lowerIndexForReadonlyObjects = 0
    /\ objIndex = 3
    /\ lastInsert = [name |-> "", rule |-> "none", index |-> 0, scanned |-> {},
                     before |-> <<>>]
    /\ script = [OrgScript EXCEPT !.sourceMedia = "File"]
    /\ csvValuesMapping = {}
    /\ csvIssues = <<>>
    /\ cachedCSVContent = ClearedCache
    /\ abortWasPrompted = FALSE
    /\ disk = [csvFiles |-> {objects[1].name, objects[2].name}, sourceFiles |-> {}]
    /\ pc = "cache"
    /\ pass = 0
    /\ index = 0
    /\ retrieved = FALSE
    /\ updated = 0
    /\ deleted = FALSE
    /\ inFlight = {}
    /\ calls = <<>>
    /\ returned = <<>>
    /\ log = <<>>

NextCache == ReadNextId \/ ClearCachedCSVData \/ TouchCachedCSVContent

SpecCache == InitCache /\ [][NextCache]_vars

----------------------------------------------------------------------------
(* getTaskBySObjectName() on its own, on any list of tasks *)

\* most tasks in a list that is looked up
MaxLookupTasks == 3

\* the names of the tasks of such a list, which may repeat, and a name of no task
LookupNames == {"O1", "O2", "O3"}
AbsentName == "O4"

\* this.tasks.filter(x => x.sObjectName == sObjectName): the places of the tasks
\* kept (code indices into tasks), in order
FilterBySObjectName(taskList, sObjectName) ==
    SelectSeq([k \in 1..Len(taskList) |-> k - 1],
              LAMBDA i : taskList[i + 1] = sObjectName)

\* a lookup that returns the last task of the name
GetTaskBySObjectName_LastMatch(taskList, sObjectName) ==
    LET found == FilterBySObjectName(taskList, sObjectName)
    IN  IF Len(found) = 0 THEN <<>> ELSE <<found[Len(found)]>>

\* getTaskBySObjectName(sObjectName): element [0] of the filtered array; <<>> stands
\* for undefined, <<i>> for the task at code index i
GetTaskBySObjectName(taskList, sObjectName) ==
    LET found == FilterBySObjectName(taskList, sObjectName)
    IN  IF Len(found) = 0 THEN <<>> ELSE <<found[1]>>

\* getTaskBySObjectName is called; the name asked and the result are kept in
\* `returned`
GetTaskBySObjectNameCall ==
    /\ pc = "lookup"
    /\ \E sObjectName \in LookupNames \cup {AbsentName} :
          returned' = <<[sObjectName |-> sObjectName,
                         task |-> GetTaskBySObjectName(tasks, sObjectName)]>>
    /\ UNCHANGED <<setupVars, script, csvVars, pc, pass, index, retrieved, updated,
                   deleted, inFlight, calls, log>>

\* a job whose tasks are any list of up to MaxLookupTasks names
InitLookup ==
    /\ \E n \in 0..MaxLookupTasks : tasks \in [1..n -> LookupNames]
    /\ objects = [k \in 1..Len(tasks) |->
                    [ScriptObject(k, 0, FALSE, {}, NoFlags) EXCEPT !.name = tasks[k]]]
    /\ queryTasks = tasks
    /\ isMasterDetailTask = [name \in {tasks[k] : k \in 1..Len(tasks)} |-> FALSE]
    /\ lowerIndexForAnyObjects = 0
    /\ lowerIndexForReadonlyObjects = 0
    /\ objIndex = Len(tasks) + 1
    /\ lastInsert = [name |-> "", rule |-> "none", index |-> 0, scanned |-> {},
                     before |-> <<>>]
    /\ script = OrgScript
    /\ csvValuesMapping = {}
    /\ csvIssues = <<>>
    /\ cachedCSVContent = ClearedCache
    /\ abortWasPrompted = FALSE
    /\ disk = [csvFiles |-> {}, sourceFiles |-> {}]
    /\ pc = "lookup"
    /\ pass = 0
    /\ index = 0
    /\ retrieved = FALSE
    /\ updated = 0
    /\ deleted = FALSE
    /\ inFlight = {}
    /\ calls = <<>>
    /\ returned = <<>>
    /\ log = <<>>

NextLookup == GetTaskBySObjectNameCall

SpecLookup == InitLookup /\ [][NextLookup]_vars

----------------------------------------------------------------------------
(* Properties of the task order *)

SetupDone == pc # "setup"

IsRecordType(name) == name = RECORD_TYPE_SOBJECT_NAME
IsReadonlyTask(name) == ~IsRecordType(name) /\ ObjectByName(name).isReadonlyObject
IsOrdinaryTask(name) == ~IsRecordType(name) /\ ~ObjectByName(name).isReadonlyObject

DeclaredNames == {objects[i].name : i \in 1..Len(objects)}

\* C1: after setup(), the task of every object comes strictly after the task of
\* each of its master-detail parents.
C1_MasterDetailChildAfterParent ==
    SetupDone =>
        \A c \in DeclaredNames : \A p \in ObjectByName(c).parentMasterDetailObjects :
            IndexOf(tasks, c) > IndexOf(tasks, p)

\* the scenario of C2: two ordinary objects declared [B, A] = [O1, O2], O2 the
\* master-detail parent of O1, no other relationship
C2_Scenario ==
    /\ Len(objects) = 2
    /\ objects[1].name = "O1" /\ objects[2].name = "O2"
    /\ ~objects[1].isReadonlyObject /\ ~objects[2].isReadonlyObject
    /\ objects[1].parentMasterDetailObjects = {"O2"}
    /\ objects[1].parentLookupObjects = {}
    /\ objects[2].parentMasterDetailObjects = {}
    /\ objects[2].parentLookupObjects = {}

\* C2: in that scenario setup() yields the order [A, B] = [O2, O1]: the
\* master-detail parent declared after its child is placed before it.
C2_ParentDeclaredLastIsPlacedFirst ==
    (SetupDone /\ C2_Scenario) => tasks = <<"O2", "O1">>

\* C3: in every state of setup(), after each insertion, the RecordType task is at
\* index 0, the read-only tasks follow it without a gap, and every ordinary task
\* has a greater index than every read-only task and than the RecordType task.
C3_Partition ==
    LET rt == IF \E k \in 1..Len(tasks) : IsRecordType(tasks[k]) THEN 1 ELSE 0
        ro == Cardinality({k \in 1..Len(tasks) : IsReadonlyTask(tasks[k])})
    IN  /\ \A k \in 1..Len(tasks) : IsRecordType(tasks[k]) => k - 1 = 0
        /\ \A k \in 1..Len(tasks) :
              IsReadonlyTask(tasks[k]) <=> (rt <= k - 1 /\ k - 1 < rt + ro)
        /\ \A k \in 1..Len(tasks) : IsOrdinaryTask(tasks[k]) => k - 1 >= rt + ro

\* a state where C3 is at stake: an ordinary object was inserted by the scan while a
\* read-only task that lists it as lookup parent was in the list, and the RecordType
\* object was declared after both
C3_Witness ==
    /\ SetupDone
    /\ Len(tasks) = 3
    /\ IsRecordType(objects[3].name)
    /\ \E r, o \in 1..2 :
          /\ IsReadonlyTask(objects[r].name)
          /\ IsOrdinaryTask(objects[o].name)
          /\ r < o
          /\ objects[o].name \in objects[r].parentLookupObjects

\* the lookup relationships lead from a to b in one or more steps
RECURSIVE LookupReaches(_, _, _)
LookupReaches(a, b, fuel) ==
    \/ b \in ObjectByName(a).parentLookupObjects
    \/ /\ fuel > 0
       /\ \E m \in ObjectByName(a).parentLookupObjects :
             LookupReaches(m, b, fuel - 1)

LookupsAcyclic ==
    \A a \in DeclaredNames : ~LookupReaches(a, a, Len(objects))

\* C4: ordinary objects only, no master-detail relationship, acyclic lookups: after
\* setup() every lookup parent precedes each object that lists it.
C4_LookupParentFirstWhenAcyclic ==
    ( /\ SetupDone
      /\ \A n \in DeclaredNames : IsOrdinaryTask(n)
      /\ \A n \in DeclaredNames : ObjectByName(n).parentMasterDetailObjects = {}
      /\ LookupsAcyclic )
    => \A c \in DeclaredNames : \A p \in ObjectByName(c).parentLookupObjects :
          IndexOf(tasks, p) < IndexOf(tasks, c)

----------------------------------------------------------------------------
(* Properties of the query order *)

\* C5: after setup(), queryTasks holds every task of tasks exactly once; the tasks
\* retrieved in full or with a limited query come before all others; inside each of
\* the two groups the order is that of tasks.
C5_QueryOrder ==
    SetupDone =>
        /\ Len(queryTasks) = Len(tasks)
        /\ \A t \in 1..Len(tasks) :
              Cardinality({q \in 1..Len(queryTasks) : queryTasks[q] = tasks[t]}) = 1
        /\ \A i, j \in 1..Len(queryTasks) :
              (IsQueriedFirst(queryTasks[i]) /\ ~IsQueriedFirst(queryTasks[j])) => i < j
        /\ \A i, j \in 1..Len(queryTasks) :
              ( /\ IsQueriedFirst(queryTasks[i]) = IsQueriedFirst(queryTasks[j])
                /\ i < j )
              => IndexOf(tasks, queryTasks[i]) < IndexOf(tasks, queryTasks[j])

\* a state where C5 is at stake: three tasks, the first of tasks is not queried first
\* and the two after it are, so the query order differs from the task order
C5_Witness ==
    /\ SetupDone
    /\ Len(tasks) = 3
    /\ ~IsQueriedFirst(tasks[1]) /\ IsQueriedFirst(tasks[2]) /\ IsQueriedFirst(tasks[3])
    /\ ObjectByName(tasks[2]).isLimitedQuery /\ ~SourceAllRecords(tasks[2])
    /\ SourceAllRecords(tasks[3])
    /\ queryTasks = <<tasks[2], tasks[3], tasks[1]>>

----------------------------------------------------------------------------
(* Properties of retrieveRecords() and updateRecords() *)

IsPrefix(a, b) == Len(a) <= Len(b) /\ \A i \in 1..Len(a) : a[i] = b[i]

\* retrieveRecords() has returned and updateRecords() has not begun: calls, log and
\* returned are those of retrieveRecords()
RetrieveDone == pc = "updateRecords"

\* updateRecords() has returned
UpdateDone == pc = "done"

\* C6: for every master-detail parent P of C, in every retrieval sweep and in every
\* update pass the call for P's task is made before the call for C's task.
C6_MasterDetailParentProcessedFirst ==
    \A k \in 1..Len(calls) :
        (calls[k].ev = "call" /\ calls[k].c.op \in {"retrieveRecords", "updateRecords"})
        => \A parent \in ObjectByName(calls[k].c.task).parentMasterDetailObjects :
              \E j \in 1..(k - 1) :
                  /\ calls[j].ev = "call"
                  /\ calls[j].c.op = calls[k].c.op
                  /\ calls[j].c.pass = calls[k].c.pass
                  /\ calls[j].c.task = parent

\* the five sweeps as C7 states them
C7_Sweeps ==
    << [direction |-> "forwards", reversed |-> FALSE],
       [direction |-> "backwards", reversed |-> FALSE],
       [direction |-> "backwards", reversed |-> FALSE],
       [direction |-> "forwards", reversed |-> TRUE],
       [direction |-> "target", reversed |-> FALSE] >>

\* one call on every task of `order` per sweep, each call completed before the next
\* one is made
SweepCalls(op, order, sweeps) ==
    [i \in 1..(2 * Len(order) * Len(sweeps)) |->
        LET p == ((i - 1) \div (2 * Len(order))) + 1
            k == (((i - 1) % (2 * Len(order))) \div 2) + 1
            c == [op |-> op, task |-> order[k], pass |-> p,
                  direction |-> sweeps[p].direction, reversed |-> sweeps[p].reversed]
        IN  IF (i - 1) % 2 = 0 THEN Called(c) ELSE Completed(c)]

\* C7: retrieveRecords() makes exactly the five sweeps of C7_Sweeps, each calling
\* task.retrieveRecords once per task in query order, whatever the calls return, and
\* every call is completed before the next one is made.
C7_FiveSweepsInQueryOrder ==
    /\ pc = "retrieving" =>
          IsPrefix(calls, SweepCalls("retrieveRecords", queryTasks, C7_Sweeps))
    /\ RetrieveDone => calls = SweepCalls("retrieveRecords", queryTasks, C7_Sweeps)

\* a state where C7 is at stake: retrieveRecords() returned, the query order is not
\* the task order, and calls of an earlier sweep returned true, of a later one false
C7_Witness ==
    /\ RetrieveDone
    /\ Len(queryTasks) >= 2
    /\ queryTasks # tasks
    /\ returned = <<TRUE, FALSE, TRUE, FALSE, FALSE>>

\* the step of retrieveRecords() a pass belongs to
StepOfPass(p) == IF p = 1 THEN 1 ELSE IF p = 5 THEN 3 ELSE 2

NoRecordsLogged(passes) ==
    \E k \in 1..Len(log) : log[k].msg = "noRecords" /\ log[k].pass \in passes

\* C8 as stated: for each of the three steps, "no records" is logged during the step
\* iff no retrieval call of the step returned true.
C8_NoRecordsPerStep ==
    RetrieveDone =>
        \A step \in 1..3 :
            LET passes == {p \in 1..5 : StepOfPass(p) = step}
            IN  NoRecordsLogged(passes) <=> (\A p \in passes : ~returned[p])

\* C8 as amended: "no records" is logged once after a sweep iff no retrieval call of
\* that sweep returned true, for each of the five sweeps; it is not logged for a
\* sweep that is still running.
C8_NoRecordsPerSweep ==
    (pc = "retrieving" \/ RetrieveDone) =>
        \A p \in 1..5 :
            LET n == Cardinality({k \in 1..Len(log) :
                                    log[k].msg = "noRecords" /\ log[k].pass = p})
            IN  IF p < pass \/ (p = pass /\ RetrieveDone)
                THEN n = (IF returned[p] THEN 0 ELSE 1)
                ELSE n = 0

\* a state where C8 is at stake: retrieveRecords() returned after every call of every
\* sweep returned false
C8_Witness ==
    /\ RetrieveDone
    /\ Len(queryTasks) >= 2
    /\ returned = <<FALSE, FALSE, FALSE, FALSE, FALSE>>
    /\ Cardinality({k \in 1..Len(log) : log[k].msg = "noRecords"}) = 5

\* the two passes as C9 states them
C9_Passes ==
    << [direction |-> "forwards", reversed |-> FALSE],
       [direction |-> "backwards", reversed |-> FALSE] >>

FooterLogged(msg, p) ==
    Cardinality({k \in 1..Len(log) : log[k].msg = msg /\ log[k].pass = p})

\* C9: updateRecords() calls task.updateRecords("forwards") once per task in tasks
\* order, then task.updateRecords("backwards") once per task in tasks order, each
\* call completed before the next; each step logs "completed" iff the counts
\* returned in that step alone sum to non-zero, and "nothing updated" otherwise.
C9_TwoPassesAndMessages ==
    /\ pc = "updating" => IsPrefix(calls, SweepCalls("updateRecords", tasks, C9_Passes))
    /\ UpdateDone => calls = SweepCalls("updateRecords", tasks, C9_Passes)
    /\ (pc = "updating" \/ UpdateDone) =>
          \A p \in 1..2 :
              LET done == FooterLogged(IF p = 1 THEN "updatingTargetCompleted Step1"
                                       ELSE "updatingTargetCompleted Step2", p)
                  nothing == FooterLogged("nothingUpdated", p)
              IN  IF p < pass \/ (p = pass /\ UpdateDone)
                  THEN /\ done = (IF returned[p] # 0 THEN 1 ELSE 0)
                       /\ nothing = (IF returned[p] # 0 THEN 0 ELSE 1)
                  ELSE done = 0 /\ nothing = 0

\* a state where C9 is at stake: updateRecords() returned, step 1 updated records
\* and step 2 updated none
C9_Witness ==
    /\ UpdateDone
    /\ Len(tasks) >= 2
    /\ returned[1] > 0
    /\ returned[2] = 0

----------------------------------------------------------------------------
(* Properties of validateCSVFiles() *)

\* validateCSVFiles() is over: it returned, or the job was ended in it
ValidateCSVFilesOver ==
    pc \notin {"setup", "validateCSVFiles", "merging", "loadingValueMapping",
               "validateCSV", "promptStructure", "repairCSV", "reporting",
               "promptData", "validated"}

\* C10: a file-sourced job in validate-only mode in which no structural issue is
\* found ends in validateCSVFiles() with SuccessExit, whatever the other options, so
\* no later method of the job is called.
C10_ValidateOnlyExits ==
    ( /\ script.sourceMedia = "File"
      /\ script.validateCSVFilesOnly
      /\ ValidateCSVFilesOver
      /\ \A k \in 1..Len(csvIssues) : csvIssues[k].kind # "structure" )
    => pc = "SuccessExit"

----------------------------------------------------------------------------
(* Properties of _validateAndRepairSourceCSVFiles() *)

\* `calls`, `log` and `returned` are those of validateCSVFiles(): the method is
\* running, or it is over and no later method has begun
InValidateCSVFiles ==
    pc \in {"merging", "loadingValueMapping", "validateCSV", "promptStructure",
            "repairCSV", "reporting", "promptData", "validated", "SuccessExit",
            "aborted", "getTotalRecordsCount"}

\* the structure loop of validate-and-repair is over
StructureLoopOver ==
    pc \in {"promptStructure", "repairCSV", "reporting", "promptData", "validated",
            "SuccessExit", "aborted"}

\* validate-and-repair reached its end
ValidateAndRepairEnded ==
    \/ pc \in {"validated", "SuccessExit"}
    \/ pc = "getTotalRecordsCount" /\ script.sourceMedia = "File"
                                   /\ ~script.importCSVFilesAsIs

\* the places in `calls` where a call of `op` is made / where anything of `op` happens
CallsOf(op) == {k \in 1..Len(calls) : calls[k].ev = "call" /\ calls[k].c.op = op}
EventsOf(op) == {k \in 1..Len(calls) : calls[k].c.op = op}

IssuesOfKind(kind) == {k \in 1..Len(csvIssues) : csvIssues[k].kind = kind}

\* the repair loop called every task and every call completed
RepairLoopOver ==
    Cardinality({k \in EventsOf("repairCSV") : calls[k].ev = "return"}) = Len(tasks)

\* C11: in one run of validate-and-repair the prompt is invoked at most once; when
\* structural issues exist it is invoked after the validateCSV of every task and
\* before the repairCSV of any task, and not again in the report phase.
C11_PromptAtMostOnce ==
    InValidateCSVFiles =>
        /\ Cardinality(CallsOf("abortWithPrompt")) <= 1
        /\ (StructureLoopOver /\ IssuesOfKind("structure") # {}) =>
              \E k \in CallsOf("abortWithPrompt") :
                  /\ Cardinality({j \in EventsOf("validateCSV") :
                                    calls[j].ev = "return" /\ j < k}) = Len(tasks)
                  /\ \A j \in EventsOf("validateCSV") : j < k
                  /\ \A j \in EventsOf("repairCSV") : k < j

\* a state where C11 is at stake: validate-and-repair ended after both tasks
\* reported structural issues and both reported repair issues
C11_Witness ==
    /\ pc = "validated"
    /\ Len(tasks) = 2
    /\ Cardinality(IssuesOfKind("structure")) = 2
    /\ Cardinality(IssuesOfKind("data")) = 2
    /\ abortWasPrompted
    /\ Cardinality(CallsOf("abortWithPrompt")) = 1

\* C12: every issue returned by validateCSV or repairCSV is in csvIssues, in the
\* order returned, and no issue is ever removed; when validate-and-repair ends with
\* issues, the prompt was invoked in the report phase or the report was written
\* there with all the issues; when it ends with none, there is no prompt, no report,
\* and "no issues" is logged.
C12_IssuesSurfaced ==
    InValidateCSVFiles =>
        /\ csvIssues = returned
        /\ ValidateAndRepairEnded =>
              /\ RepairLoopOver
              /\ IF Len(csvIssues) > 0
                 THEN /\ \/ \E k \in CallsOf("abortWithPrompt") :
                               \A j \in EventsOf("repairCSV") : j < k
                         \/ \E k \in CallsOf("saveCSVFileAsync") :
                               /\ calls[k].c.task = csvIssues
                               /\ \A j \in EventsOf("repairCSV") : j < k
                      /\ \A k \in 1..Len(log) :
                            log[k].msg # "noIssuesFoundDuringCSVValidation"
                 ELSE /\ CallsOf("abortWithPrompt") = {}
                      /\ CallsOf("saveCSVFileAsync") = {}
                      /\ Cardinality({k \in 1..Len(log) :
                            log[k].msg = "noIssuesFoundDuringCSVValidation"}) = 1

\* a state where C12 is at stake: validate-and-repair ended with a structural issue
\* and a repair issue, and the report phase wrote the report without prompting
C12_Witness ==
    /\ ValidateAndRepairEnded
    /\ IssuesOfKind("structure") # {}
    /\ IssuesOfKind("data") # {}
    /\ Cardinality(CallsOf("saveCSVFileAsync")) = 2
    /\ calls[Len(calls)] = Completed(IoCall("saveCSVFileAsync", csvIssues))

\* saveCachedCsvDataFiles() has run and the cache is still what the repair left
PersistenceDone == pc \in {"reporting", "promptData", "validated"}

\* C13: after the persistence phase every path in updatedFilenames has been
\* rewritten exactly once, with the rows the cache holds for it, no other path has
\* been rewritten, and the number logged is the number of files rewritten.
C13_UpdatedFilesRewrittenOnce ==
    PersistenceDone =>
        LET writes == CallsOf("writeCsvFileAsync")
            cache == cachedCSVContent
        IN  /\ \A path \in cache.updatedFilenames :
                  /\ Cardinality({k \in writes : calls[k].c.task.path = path}) = 1
                  /\ \A k \in writes :
                        (calls[k].c.task.path = path
                         /\ CacheHas(cache.csvDataCacheMap, path))
                        => calls[k].c.task.rows = CacheGet(cache.csvDataCacheMap, path)
            /\ \A k \in writes : calls[k].c.task.path \in cache.updatedFilenames
            /\ \A k \in 1..Len(log) :
                  log[k].msg = "csvFilesWereUpdated" => log[k].count = Cardinality(writes)

----------------------------------------------------------------------------
(* Properties of CachedCSVContent *)

\* the number written by a sequence of decimal digits
RECURSIVE DigitsValue(_)
DigitsValue(digits) ==
    IF Len(digits) = 0 THEN 0
    ELSE 10 * DigitsValue(SubSeq(digits, 1, Len(digits) - 1)) + digits[Len(digits)]

\* identifier a comes before identifier b, character by character
IdLess(a, b) ==
    \E i \in 2..Len(a) :
        /\ i <= Len(b)
        /\ a[i] < b[i]
        /\ \A j \in 2..(i - 1) : a[j] = b[j]

\* C14: within one lifetime of the cache the k-th read of nextId returns "ID"
\* followed by k written in 16 zero-padded digits, so the identifiers read are
\* pairwise distinct and strictly increasing; idCounter changes only by clear() and
\* by a read of nextId, which adds exactly 1.
C14_NextIdSequence ==
    /\ [](/\ Len(returned) = cachedCSVContent.idCounter - 1
          /\ \A k \in 1..Len(returned) :
                /\ Len(returned[k]) = 1 + 16
                /\ returned[k][1] = "ID"
                /\ \A d \in 2..17 : returned[k][d] \in 0..9
                /\ DigitsValue(SubSeq(returned[k], 2, 17)) = k
          /\ Len(returned) >= 3 =>
                /\ returned[1] = <<"ID", 0, 0, 0, 0, 0, 0, 0, 0, 0, 0, 0, 0, 0, 0, 0, 1>>
                /\ returned[2] = <<"ID", 0, 0, 0, 0, 0, 0, 0, 0, 0, 0, 0, 0, 0, 0, 0, 2>>
                /\ returned[3] = <<"ID", 0, 0, 0, 0, 0, 0, 0, 0, 0, 0, 0, 0, 0, 0, 0, 3>>
          /\ \A i, j \in 1..Len(returned) :
                i < j => returned[i] # returned[j] /\ IdLess(returned[i], returned[j]))
    /\ [][cachedCSVContent'.idCounter # cachedCSVContent.idCounter =>
            \/ cachedCSVContent' = ClearedCache /\ returned' = <<>>
            \/ /\ cachedCSVContent'.idCounter = cachedCSVContent.idCounter + 1
               /\ Len(returned') = Len(returned) + 1]_vars

\* a state where C14 is at stake: in a lifetime in which files were cached and
\* marked, nextId has been read more than ten times
C14_Witness ==
    /\ pc = "cache"
    /\ Len(returned) = 11
    /\ returned[11] = <<"ID", 0, 0, 0, 0, 0, 0, 0, 0, 0, 0, 0, 0, 0, 0, 1, 1>>
    /\ Len(cachedCSVContent.csvDataCacheMap) = 2
    /\ cachedCSVContent.updatedFilenames # {}

\* the cleared state of the cache
IsCleared(cache) ==
    /\ cache.csvDataCacheMap = <<>>
    /\ cache.updatedFilenames = {}
    /\ cache.idCounter = 1

\* validateCSVFiles() has returned normally
ValidateCSVFilesReturned ==
    pc \in {"getTotalRecordsCount", "counting", "deleteOldRecords", "deleting",
            "retrieveRecords", "retrieving", "updateRecords", "updating", "done"}

\* C15: the cache is in its cleared state after construction and after every
\* clear(); once validateCSVFiles() has returned normally the cache is in the
\* cleared state, so before any retrieval; when the job exits in validate-only mode
\* the cache is left as validate-and-repair left it.
C15_CacheClearedAfterValidation ==
    /\ [](/\ pc = "setup" => IsCleared(cachedCSVContent)
          /\ ValidateCSVFilesReturned => IsCleared(cachedCSVContent))
    /\ [][/\ pc' = "SuccessExit" => cachedCSVContent' = cachedCSVContent
          /\ (pc = "validated" /\ pc' # "SuccessExit") => IsCleared(cachedCSVContent')]_vars

\* a state where C15 is at stake: validateCSVFiles() has just returned after a
\* repair that had filled the cache, synthesized an identifier and rewritten a file
C15_Witness ==
    /\ pc = "getTotalRecordsCount"
    /\ script.sourceMedia = "File"
    /\ ~script.importCSVFilesAsIs
    /\ CallsOf("writeCsvFileAsync") # {}
    /\ \E k \in CallsOf("writeCsvFileAsync") :
          \E row \in calls[k].c.task.rows : Len(row) = 17
    /\ IsCleared(cachedCSVContent)

----------------------------------------------------------------------------
(* Properties of validateCSVFiles() on a file-sourced job *)

\* the step of validateCSVFiles() a call belongs to
StepOfCall(op) ==
    CASE op = "mergeCsvFilesAsync" -> 1
      [] op = "readCsvFileAsync" -> 2
      [] op = "copyFileSync" -> 3
      [] OTHER -> 4

\* the first three steps, each completed before the next is started
FirstSteps ==
    << <<"call", "mergeCsvFilesAsync">>, <<"return", "mergeCsvFilesAsync">>,
       <<"call", "readCsvFileAsync">>, <<"return", "readCsvFileAsync">>,
       <<"call", "copyFileSync">>, <<"return", "copyFileSync">> >>

\* what happened in `calls`, by event and operation
CallSteps == [k \in 1..Len(calls) |-> <<calls[k].ev, calls[k].c.op>>]

\* the task files rewritten so far by the persistence phase
RewrittenFiles == {calls[k].c.task.path : k \in CallsOf("writeCsvFileAsync")}

\* C16: on a file-sourced job validateCSVFiles() merges the User/Group files, loads
\* the value mapping, copies the source files aside and only then validates and
\* repairs, each step begun after the previous one completed; when a repairCSV runs
\* or a cached file is rewritten, every task file that existed has its pristine copy.
C16_StepsInOrder ==
    (InValidateCSVFiles /\ script.sourceMedia = "File") =>
        /\ IsPrefix(CallSteps, FirstSteps) \/ IsPrefix(FirstSteps, CallSteps)
        /\ \A i, j \in 1..Len(calls) :
              i < j => StepOfCall(calls[i].c.op) <= StepOfCall(calls[j].c.op)
        /\ (EventsOf("repairCSV") # {} \/ EventsOf("writeCsvFileAsync") # {}) =>
              \A k \in 1..Len(tasks) :
                  (CsvFilename(tasks[k]) \in disk.csvFiles \ RewrittenFiles)
                  => CsvFilename(tasks[k]) \in disk.sourceFiles

\* a state where C16 is at stake: one task file existed and one did not, both tasks
\* were repaired and the file that existed was rewritten after it was copied
C16_Witness ==
    /\ pc = "validated"
    /\ Len(tasks) = 2
    /\ disk.sourceFiles = {CsvFilename(tasks[2])}
    /\ CsvFilename(tasks[2]) \in RewrittenFiles
    /\ Cardinality(EventsOf("repairCSV")) = 4

\* a message is in the log of the running method
HasLogged(msg) == \E k \in 1..Len(log) : log[k].msg = msg

\* C17: validate-and-repair runs iff the source is file and the files are not
\* imported as they are; otherwise validateCSVFiles() calls no validateCSV or
\* repairCSV, leaves csvIssues and the cache as they were, rewrites no file, shows
\* no prompt and returns normally; when the source is not file it also merges,
\* loads and copies nothing.
C17_ValidateAndRepairOnlyForFiles ==
    InValidateCSVFiles =>
        LET runs == script.sourceMedia = "File" /\ ~script.importCSVFilesAsIs
        IN  /\ runs =>
                  /\ pc \notin {"merging", "loadingValueMapping"}
                        => HasLogged("validatingAndFixingSourceCSVFiles")
                  /\ ValidateAndRepairEnded =>
                        /\ Cardinality(CallsOf("validateCSV")) = Len(tasks)
                        /\ Cardinality(CallsOf("repairCSV")) = Len(tasks)
            /\ ~runs =>
                  /\ ~HasLogged("validatingAndFixingSourceCSVFiles")
                  /\ \A k \in 1..Len(calls) :
                        calls[k].c.op \in {"mergeCsvFilesAsync", "readCsvFileAsync",
                                           "copyFileSync"}
                  /\ csvIssues = <<>>
                  /\ cachedCSVContent =
                        [csvDataCacheMap |-> <<>>, updatedFilenames |-> {}, idCounter |-> 1]
                  /\ pc \in {"merging", "loadingValueMapping", "getTotalRecordsCount"}
            /\ script.sourceMedia # "File" =>
                  /\ calls = <<>>
                  /\ csvValuesMapping = {}
                  /\ disk.sourceFiles = {}
                  /\ pc = "getTotalRecordsCount"

\* a state where C17 is at stake: validateCSVFiles() returned on a file-sourced job
\* that imports its files as they are, after loading value mappings and copying
\* the files of two tasks
C17_Witness ==
    /\ pc = "getTotalRecordsCount"
    /\ script.sourceMedia = "File"
    /\ script.importCSVFilesAsIs
    /\ Len(tasks) = 2
    /\ csvValuesMapping # {}
    /\ Cardinality(disk.sourceFiles) = 2
    /\ HasLogged("validatingSourceCSVFilesSkipped")

----------------------------------------------------------------------------
(* Properties of deleteOldRecords() *)

Reverse(list) == [k \in 1..Len(list) |-> list[Len(list) + 1 - k]]

\* deleteOldRecords() has returned and retrieveRecords() has not begun
DeleteDone == pc = "retrieveRecords"

\* the single sweep of deleteOldRecords()
C18_Sweep == << [direction |-> "", reversed |-> FALSE] >>

\* C18: deleteOldRecords() calls deleteOldTargetRecords once on every task, from the
\* last task of `tasks` to the first, whatever the calls return; it reports
\* "completed" iff one of the calls returned true and "skipped" otherwise.
C18_DeleteInReverseOrder ==
    /\ pc = "deleting" =>
          /\ IsPrefix(calls, SweepCalls("deleteOldTargetRecords", Reverse(tasks), C18_Sweep))
          /\ ~HasLogged("deletingOldDataCompleted")
          /\ ~HasLogged("deletingOldDataSkipped")
    /\ DeleteDone =>
          /\ calls = SweepCalls("deleteOldTargetRecords", Reverse(tasks), C18_Sweep)
          /\ deleted = returned[1]
          /\ FooterLogged("deletingOldDataCompleted", 1) = (IF returned[1] THEN 1 ELSE 0)
          /\ FooterLogged("deletingOldDataSkipped", 1) = (IF returned[1] THEN 0 ELSE 1)

\* a state where C18 is at stake: deleteOldRecords() returned on two tasks after a
\* call returned true
C18_Witness ==
    /\ DeleteDone
    /\ Len(tasks) = 2
    /\ returned[1]
    /\ calls[1] = Called([op |-> "deleteOldTargetRecords", task |-> tasks[2], pass |-> 1,
                          direction |-> "", reversed |-> FALSE])
    /\ HasLogged("deletingOldDataCompleted")

----------------------------------------------------------------------------
(* Properties of the per-task loops *)

\* the operations the job's loops call on a task
TaskOperations ==
    {"getTotalRecordsCountAsync", "deleteOldTargetRecords", "retrieveRecords",
     "updateRecords", "validateCSV", "repairCSV"}

\* C19: in every per-task loop at most one task operation is in flight: a call on a
\* task is completed before the next call on any task is made, and the cache is
\* changed only by the one repairCSV that is in flight.
C19_OneTaskOperationAtATime ==
    /\ [](/\ Cardinality(inFlight) <= 1
          /\ \A k \in 1..Len(calls) :
                (calls[k].ev = "call" /\ calls[k].c.op \in TaskOperations) =>
                    IF k = Len(calls)
                    THEN inFlight = {calls[k].c}
                    ELSE calls[k + 1] = Completed(calls[k].c))
    /\ [][(pc = "repairCSV" /\ cachedCSVContent' # cachedCSVContent) =>
            \E c \in inFlight :
                /\ inFlight = {c}
                /\ c.op = "repairCSV"
                /\ inFlight' = {}]_vars

\* a state where C19 is at stake: in the repair loop the call on the second task is
\* in flight, the call on the first task has completed and has changed the cache
C19_Witness ==
    /\ pc = "repairCSV"
    /\ Len(tasks) = 2
    /\ inFlight = {TaskCall("repairCSV", tasks[2], "", FALSE)}
    /\ calls[Len(calls) - 1] = Completed(TaskCall("repairCSV", tasks[1], "", FALSE))
    /\ cachedCSVContent.idCounter = 2

----------------------------------------------------------------------------
(* Properties of getTaskBySObjectName() *)

\* C20: getTaskBySObjectName(n) returns the task of lowest index in `tasks` whose
\* name is n, undefined when no task has the name, and changes no state.
C20_FirstTaskOfName ==
    /\ [](\A r \in 1..Len(returned) :
            LET n == returned[r].sObjectName
                places == {k \in 1..Len(tasks) : tasks[k] = n}
            IN  IF places = {}
                THEN returned[r].task = <<>>
                ELSE \E k \in places :
                        /\ \A j \in places : k <= j
                        /\ returned[r].task = <<k - 1>>)
    /\ [][UNCHANGED <<setupVars, script, csvVars, pc, pass, index, retrieved, updated,
                      deleted, inFlight, calls, log>>]_vars

\* a state where C20 is at stake: the name asked is the name of the second and of
\* the third task, and the second task was returned
C20_Witness ==
    /\ pc = "lookup"
    /\ Len(tasks) = 3
    /\ tasks[1] # tasks[2]
    /\ tasks[2] = tasks[3]
    /\ returned = <<[sObjectName |-> tasks[2], task |-> <<1>>]>>

----------------------------------------------------------------------------
(* Properties of the general case of setup() *)

\* the next iteration of the forEach of setup() is the general case: an ordinary
\* object is inserted into a list that is not empty
GeneralCaseNext ==
    /\ pc = "setup"
    /\ objIndex <= Len(objects)
    /\ objects[objIndex].name # RECORD_TYPE_SOBJECT_NAME
    /\ ~objects[objIndex].isReadonlyObject
    /\ Len(tasks) > 0

\* the indices of the tasks at or above the floor that list the object as a lookup
\* parent and are neither a master-detail parent of it nor flagged
LookupMatches(objectToAdd) ==
    {i \in lowerIndexForAnyObjects..(Len(tasks) - 1) :
        /\ objectToAdd.name \in ObjectByName(tasks[i + 1]).parentLookupObjects
        /\ tasks[i + 1] \notin objectToAdd.parentMasterDetailObjects
        /\ ~isMasterDetailTask[tasks[i + 1]]}

\* C21: in the general case the object is inserted at the smallest index of the
\* region from the floor to the end whose task lists it as a lookup parent and is
\* neither a master-detail parent of it nor flagged, and at the end of the list
\* when there is none; the scan examines every index of the region and no other.
C21_InsertedAtSmallestMatch ==
    [][GeneralCaseNext =>
        LET objectToAdd == objects[objIndex]
            matches == LookupMatches(objectToAdd)
            expected == IF matches = {} THEN Len(tasks)
                        ELSE CHOOSE i \in matches : \A j \in matches : i <= j
        IN  /\ Len(tasks') = Len(tasks) + 1
            /\ tasks'[expected + 1] = objectToAdd.name
            /\ \A k \in 1..Len(tasks) :
                  tasks'[IF k <= expected THEN k ELSE k + 1] = tasks[k]
            /\ lastInsert'.index = expected
            /\ lastInsert'.scanned = lowerIndexForAnyObjects..(Len(tasks) - 1)]_vars

\* a state where C21 is at stake: an object was inserted at index 0 of a list of two
\* ordinary tasks that both list it as a lookup parent, below a match nearer the tail
C21_Witness ==
    /\ lastInsert.rule = "general"
    /\ Len(lastInsert.before) = 2
    /\ lastInsert.scanned = {0, 1}
    /\ \A k \in 1..2 :
          lastInsert.name \in ObjectByName(lastInsert.before[k]).parentLookupObjects
    /\ ObjectByName(lastInsert.name).parentMasterDetailObjects = {}
    /\ lastInsert.index = 0
    /\ tasks = <<lastInsert.name>> \o lastInsert.before

\* C22: when the object inserted in the general case lists an already placed
\* ordinary task T among its master-detail parents, T keeps its index, the object is
\* inserted at a greater index and T is flagged isMasterDetailTask.
C22_MasterDetailParentKeepsPlace ==
    lastInsert.rule = "general" =>
        \A T \in ObjectByName(lastInsert.name).parentMasterDetailObjects :
            (IndexOf(lastInsert.before, T) >= 0 /\ IsOrdinaryTask(T)) =>
                /\ IndexOf(tasks, T) = IndexOf(lastInsert.before, T)
                /\ IndexOf(tasks, lastInsert.name) > IndexOf(tasks, T)
                /\ isMasterDetailTask[T]

\* C23: isMasterDetailTask is false when the task is created and afterwards only
\* changes from false to true; in the general case the object is never inserted at
\* the index of a flagged task that lists it as a lookup parent, and it is placed
\* after that task unless a task of smaller index pulls it forward.
C23_FlagIsOneWay ==
    [][/\ \A n \in DOMAIN isMasterDetailTask :
             /\ n \in DOMAIN isMasterDetailTask'
             /\ isMasterDetailTask[n] => isMasterDetailTask'[n]
       /\ \A n \in DOMAIN isMasterDetailTask' \ DOMAIN isMasterDetailTask :
             ~isMasterDetailTask'[n]
       /\ GeneralCaseNext =>
             LET objectToAdd == objects[objIndex]
             IN  \A i \in lowerIndexForAnyObjects..(Len(tasks) - 1) :
                    ( /\ isMasterDetailTask[tasks[i + 1]]
                      /\ objectToAdd.name \in ObjectByName(tasks[i + 1]).parentLookupObjects )
                    => /\ lastInsert'.index # i
                       /\ (\A j \in LookupMatches(objectToAdd) : j > i)
                             => IndexOf(tasks', objectToAdd.name)
                                   > IndexOf(tasks', tasks[i + 1])]_vars

\* a state where C23 is at stake: a task flagged by an earlier insertion lists the
\* object inserted last as a lookup parent, the object has no master-detail parent,
\* and it was placed at the end, after its lookup child
C23_Witness ==
    /\ lastInsert.rule = "general"
    /\ ObjectByName(lastInsert.name).parentMasterDetailObjects = {}
    /\ \E k \in 1..Len(lastInsert.before) :
          /\ isMasterDetailTask[lastInsert.before[k]]
          /\ lastInsert.name \in ObjectByName(lastInsert.before[k]).parentLookupObjects
    /\ lastInsert.index = Len(lastInsert.before)
    /\ tasks = Append(lastInsert.before, lastInsert.name)

\* a list without its element at a 1-based place
WithoutPlace(list, place) ==
    SubSeq(list, 1, place - 1) \o SubSeq(list, place + 1, Len(list))

\* C24: setup() places exactly one task per declared object, none lost and none
\* twice; every insertion leaves the tasks already placed in their relative order;
\* with ordinary objects only and no relationship, tasks is the declaration order.
C24_TasksArePermutation ==
    /\ [](/\ pc = "setup" =>
                /\ Len(tasks) = objIndex - 1
                /\ \A k \in 1..Len(tasks) :
                      Cardinality({i \in 1..(objIndex - 1) : objects[i].name = tasks[k]})
                         = Cardinality({j \in 1..Len(tasks) : tasks[j] = tasks[k]})
          /\ SetupDone =>
                /\ Len(tasks) = Len(objects)
                /\ \A i \in 1..Len(objects) :
                      Cardinality({k \in 1..Len(tasks) : tasks[k] = objects[i].name}) = 1
                /\ ( \A i \in 1..Len(objects) :
                        /\ IsOrdinaryTask(objects[i].name)
                        /\ objects[i].parentLookupObjects = {}
                        /\ objects[i].parentMasterDetailObjects = {} )
                   => tasks = [i \in 1..Len(objects) |-> objects[i].name])
    /\ [][tasks' # tasks =>
            \E place \in 1..Len(tasks') : WithoutPlace(tasks', place) = tasks]_vars

\* a state where C24 is at stake: setup() is over on three declared objects of
\* which one was inserted in the middle of the two placed before it
C24_Witness ==
    /\ SetupDone
    /\ Len(objects) = 3
    /\ lastInsert.index = 1
    /\ Len(lastInsert.before) = 2
    /\ tasks = <<lastInsert.before[1], lastInsert.name, lastInsert.before[2]>>

====
